---- MODULE Spec2Model ----
(***************************************************************************)
(* Model of backend/main.py: the catalog cache (fetch_exercises), the      *)
(* query parser (parse_user_query), the exercise filter (filter_exercises) *)
(* and the POST /api/workout handler (generate_workout).                   *)
(*                                                                         *)
(* Text that the program scans or case-converts is a sequence of           *)
(* one-character strings; an Optional value is <<>> (None) or <<v>>.       *)
(***************************************************************************)
EXTENDS Integers, Sequences, FiniteSets, TLC

VARIABLES
    query, difficulty, equipment, parsed,   \* parse_user_query: arguments and result
    exercises, params, filtered,            \* filter_exercises: arguments and result
    step,                                   \* "input" before the function ran, "done" after
    api_key, anthropic_key,                 \* RAPIDAPI_KEY, ANTHROPIC_API_KEY are configured
    exercises_cache,                        \* the module-level cache
    pc, ret,                                \* per call: position and result
    requests,                               \* external catalog requests issued so far
    seen_unset, before, stored, assigns,    \* history: what each call saw and stored
    outcome                                 \* the response of the POST /api/workout being answered

vars == <<query, difficulty, equipment, parsed, exercises, params, filtered, step,
          api_key, anthropic_key, exercises_cache, pc, ret, requests,
          seen_unset, before, stored, assigns, outcome>>

None == <<>>
Some(v) == <<v>>

----------------------------------------------------------------------------
(* String literals of the source *)

s_Back == <<"B","a","c","k">>
s_Chest == <<"C","h","e","s","t">>
s_Lower_Arms == <<"L","o","w","e","r"," ","A","r","m","s">>
s_Lower_Legs == <<"L","o","w","e","r"," ","L","e","g","s">>
s_Shoulders == <<"S","h","o","u","l","d","e","r","s">>
s_Upper_Arms == <<"U","p","p","e","r"," ","A","r","m","s">>
s_Upper_Legs == <<"U","p","p","e","r"," ","L","e","g","s">>
s_Waist == <<"W","a","i","s","t">>
s_abdominals == <<"a","b","d","o","m","i","n","a","l","s">>
s_abductors == <<"a","b","d","u","c","t","o","r","s">>
s_abs == <<"a","b","s">>
s_adductors == <<"a","d","d","u","c","t","o","r","s">>
s_advanced == <<"a","d","v","a","n","c","e","d">>
s_arms == <<"a","r","m","s">>
s_back == <<"b","a","c","k">>
s_band == <<"b","a","n","d">>
s_barbell == <<"b","a","r","b","e","l","l">>
s_beginner == <<"b","e","g","i","n","n","e","r">>
s_biceps == <<"b","i","c","e","p","s">>
s_body_weight == <<"b","o","d","y"," ","w","e","i","g","h","t">>
s_bodyweight == <<"b","o","d","y","w","e","i","g","h","t">>
s_cable == <<"c","a","b","l","e">>
s_calves == <<"c","a","l","v","e","s">>
s_chest == <<"c","h","e","s","t">>
s_core == <<"c","o","r","e">>
s_dumbbell == <<"d","u","m","b","b","e","l","l">>
s_dumbbells == <<"d","u","m","b","b","e","l","l","s">>
s_easy == <<"e","a","s","y">>
s_exercise_ball == <<"e","x","e","r","c","i","s","e"," ","b","a","l","l">>
s_expert == <<"e","x","p","e","r","t">>
s_forearms == <<"f","o","r","e","a","r","m","s">>
s_full_body == <<"f","u","l","l"," ","b","o","d","y">>
s_glutes == <<"g","l","u","t","e","s">>
s_hamstrings == <<"h","a","m","s","t","r","i","n","g","s">>
s_hard == <<"h","a","r","d">>
s_home == <<"h","o","m","e">>
s_http == <<"h","t","t","p">>
s_intense == <<"i","n","t","e","n","s","e">>
s_intermediate == <<"i","n","t","e","r","m","e","d","i","a","t","e">>
s_kettlebell == <<"k","e","t","t","l","e","b","e","l","l">>
s_lats == <<"l","a","t","s">>
s_legs == <<"l","e","g","s">>
s_lower_back == <<"l","o","w","e","r"," ","b","a","c","k">>
s_lower_body == <<"l","o","w","e","r"," ","b","o","d","y">>
s_machine == <<"m","a","c","h","i","n","e">>
s_medicine_ball == <<"m","e","d","i","c","i","n","e"," ","b","a","l","l">>
s_moderate == <<"m","o","d","e","r","a","t","e">>
s_new == <<"n","e","w">>
s_no_equipment == <<"n","o"," ","e","q","u","i","p","m","e","n","t">>
s_obliques == <<"o","b","l","i","q","u","e","s">>
s_quadriceps == <<"q","u","a","d","r","i","c","e","p","s">>
s_quads == <<"q","u","a","d","s">>
s_resistance_band == <<"r","e","s","i","s","t","a","n","c","e"," ","b","a","n","d">>
s_shoulders == <<"s","h","o","u","l","d","e","r","s">>
s_starting == <<"s","t","a","r","t","i","n","g">>
s_total_body == <<"t","o","t","a","l"," ","b","o","d","y">>
s_traps == <<"t","r","a","p","s">>
s_triceps == <<"t","r","i","c","e","p","s">>
s_upper_body == <<"u","p","p","e","r"," ","b","o","d","y">>

ALL_MUSCLES ==
    <<s_chest, s_shoulders, s_biceps, s_triceps, s_forearms,
      s_lats, s_back, s_lower_back, s_traps,
      s_abdominals, s_abs, s_obliques, s_core,
      s_quadriceps, s_quads, s_hamstrings, s_glutes, s_calves, s_adductors, s_abductors, s_legs>>

MUSCLE_TO_BODYPART ==
    (s_chest :> s_Chest) @@
    (s_shoulders :> s_Shoulders) @@
    (s_biceps :> s_Upper_Arms) @@
    (s_triceps :> s_Upper_Arms) @@
    (s_forearms :> s_Lower_Arms) @@
    (s_lats :> s_Back) @@
    (s_back :> s_Back) @@
    (s_lower_back :> s_Back) @@
    (s_traps :> s_Back) @@
    (s_abdominals :> s_Waist) @@
    (s_abs :> s_Waist) @@
    (s_obliques :> s_Waist) @@
    (s_core :> s_Waist) @@
    (s_quadriceps :> s_Upper_Legs) @@
    (s_quads :> s_Upper_Legs) @@
    (s_hamstrings :> s_Upper_Legs) @@
    (s_glutes :> s_Upper_Legs) @@
    (s_calves :> s_Lower_Legs) @@
    (s_adductors :> s_Upper_Legs) @@
    (s_abductors :> s_Upper_Legs) @@
    (s_legs :> s_Upper_Legs)

EQUIPMENT_TYPES ==
    <<s_dumbbell, s_barbell, s_body_weight, s_cable, s_machine,
      s_kettlebell, s_band, s_medicine_ball, s_exercise_ball>>

EXERCISE_VIDEO_CDN ==
    <<"h","t","t","p","s",":","/","/","e","x","e","r","c","i","s","e","d","b",".","b","-","c","d","n",".","n","e","t","/">> \o
    <<"e","x","e","r","c","i","s","e","s","-","v","i","d","e","o","s">>
EXERCISE_IMAGE_CDN ==
    <<"h","t","t","p","s",":","/","/","e","x","e","r","c","i","s","e","d","b",".","b","-","c","d","n",".","n","e","t","/">> \o
    <<"e","x","e","r","c","i","s","e","s","-","t","h","u","m","b","n","a","i","l","s">>

----------------------------------------------------------------------------
(* Python string operations used by the source *)

UPPER_CASE ==
    <<"A","B","C","D","E","F","G","H","I","J","K","L","M",
      "N","O","P","Q","R","S","T","U","V","W","X","Y","Z">>
LOWER_CASE ==
    <<"a","b","c","d","e","f","g","h","i","j","k","l","m",
      "n","o","p","q","r","s","t","u","v","w","x","y","z">>

\* str.lower()
lower(s) ==
    [i \in DOMAIN s |->
        IF \E k \in DOMAIN UPPER_CASE : UPPER_CASE[k] = s[i]
        THEN LOWER_CASE[CHOOSE k \in DOMAIN UPPER_CASE : UPPER_CASE[k] = s[i]]
        ELSE s[i]]

\* str.upper()
upper(s) ==
    [i \in DOMAIN s |->
        IF \E k \in DOMAIN LOWER_CASE : LOWER_CASE[k] = s[i]
        THEN UPPER_CASE[CHOOSE k \in DOMAIN LOWER_CASE : LOWER_CASE[k] = s[i]]
        ELSE s[i]]

\* sub in s, for strings
Contains(sub, s) ==
    \E i \in 0..(Len(s) - Len(sub)) : SubSeq(s, i + 1, i + Len(sub)) = sub

\* s.startswith(prefix)
startswith(s, prefix) ==
    /\ Len(prefix) <= Len(s)
    /\ SubSeq(s, 1, Len(prefix)) = prefix

\* x in lst, for lists
InList(x, lst) == \E i \in DOMAIN lst : lst[i] = x

\* set(lst)
ToSet(lst) == {lst[i] : i \in DOMAIN lst}

\* any(word in text for word in words)
AnyIn(words, text) == \E w \in words : Contains(w, text)

----------------------------------------------------------------------------
(* parse_user_query *)

\* muscles, after the alias rules and list(set(muscles))
ParseMuscles(query_lower) ==
    LET listed == {m \in ToSet(ALL_MUSCLES) : Contains(m, query_lower)}
        arms   == IF Contains(s_arms, query_lower)
                  THEN {s_biceps, s_triceps} ELSE {}
        upperB == IF Contains(s_upper_body, query_lower)
                  THEN {s_chest, s_shoulders, s_biceps, s_triceps, s_back} ELSE {}
        lowerB == IF Contains(s_lower_body, query_lower)
                  THEN {s_quadriceps, s_hamstrings, s_glutes, s_calves} ELSE {}
        fullB  == IF Contains(s_full_body, query_lower) \/ Contains(s_total_body, query_lower)
                  THEN {s_chest, s_quadriceps, s_back, s_shoulders, s_abs} ELSE {}
    IN  listed \cup arms \cup upperB \cup lowerB \cup fullB

\* body_parts: MUSCLE_TO_BODYPART.get(m, "Chest") over the muscles, deduplicated
ParseBodyParts(muscles) ==
    {IF m \in DOMAIN MUSCLE_TO_BODYPART THEN MUSCLE_TO_BODYPART[m] ELSE s_Chest :
        m \in muscles}

BEGINNER_WORDS == {s_beginner, s_easy, s_new, s_starting}
INTERMEDIATE_WORDS == {s_intermediate, s_moderate}
EXPERT_WORDS == {s_advanced, s_expert, s_hard, s_intense}

\* a mutation of ParseDifficulty: the expert group is tried before the beginner group
ParseDifficultyExpertFirst(query_lower, given) ==
    IF given # None /\ given[1] # <<>> THEN given
    ELSE IF AnyIn(EXPERT_WORDS, query_lower) THEN Some(s_expert)
    ELSE IF AnyIn(BEGINNER_WORDS, query_lower) THEN Some(s_beginner)
    ELSE IF AnyIn(INTERMEDIATE_WORDS, query_lower) THEN Some(s_intermediate)
    ELSE given

\* parsed_difficulty: the explicit one when truthy, else the first keyword group
ParseDifficulty(query_lower, given) ==
    IF given # None /\ given[1] # <<>> THEN given
    ELSE IF AnyIn(BEGINNER_WORDS, query_lower) THEN Some(s_beginner)
    ELSE IF AnyIn(INTERMEDIATE_WORDS, query_lower) THEN Some(s_intermediate)
    ELSE IF AnyIn(EXPERT_WORDS, query_lower) THEN Some(s_expert)
    ELSE given

\* parsed_equipment: the explicit list when truthy, else scanned from the query
ParseEquipment(query_lower, given) ==
    IF given # None /\ given[1] # <<>> THEN ToSet(given[1])
    ELSE
        LET listed == {eq \in ToSet(EQUIPMENT_TYPES) : Contains(eq, query_lower)}
            bw == IF \/ Contains(s_bodyweight, query_lower)
                     \/ Contains(s_no_equipment, query_lower)
                     \/ Contains(s_home, query_lower)
                  THEN {s_body_weight} ELSE {}
            db == IF Contains(s_dumbbells, query_lower) THEN {s_dumbbell} ELSE {}
            rb == IF Contains(s_resistance_band, query_lower) THEN {s_band} ELSE {}
        IN  listed \cup bw \cup db \cup rb

parse_user_query(q, d, e) ==
    LET query_lower == lower(q)
        muscles == ParseMuscles(query_lower)
    IN  [muscles    |-> muscles,
         body_parts |-> ParseBodyParts(muscles),
         difficulty |-> ParseDifficulty(query_lower, d),
         equipment  |-> ParseEquipment(query_lower, e)]

----------------------------------------------------------------------------
(* filter_exercises *)

EQUIPMENT_THRESHOLD == 3
SPARSE_THRESHOLD == 3
FALLBACK_LIMIT == 30
CONTEXT_LIMIT == 30

\* lst[:n]
Take(lst, n) == SubSeq(lst, 1, IF Len(lst) < n THEN Len(lst) ELSE n)

MatchesBodyPart(ex, body_parts) ==
    \E bp \in body_parts :
        InList(upper(bp), [i \in DOMAIN ex.bodyParts |-> upper(ex.bodyParts[i])])

MatchesEquipment(ex, equipment_set) ==
    \E eq \in equipment_set :
        InList(lower(eq), [i \in DOMAIN ex.equipments |-> lower(ex.equipments[i])])

\* the list after the body-part step
BodyPartStep(all, p) ==
    IF p.body_parts # {}
    THEN LET Keep(ex) == MatchesBodyPart(ex, p.body_parts) IN SelectSeq(all, Keep)
    ELSE all

\* a mutation of EquipmentStep: the equipment subset is applied whenever it is non-empty
EquipmentStepAnyMatch(lst, p) ==
    IF p.equipment # {}
    THEN LET Keep(ex) == MatchesEquipment(ex, p.equipment)
             equipment_filtered == SelectSeq(lst, Keep)
         IN  IF Len(equipment_filtered) >= 1 THEN equipment_filtered ELSE lst
    ELSE lst

\* the list after the equipment step
EquipmentStep(lst, p) ==
    IF p.equipment # {}
    THEN LET Keep(ex) == MatchesEquipment(ex, p.equipment)
             equipment_filtered == SelectSeq(lst, Keep)
         IN  IF Len(equipment_filtered) >= EQUIPMENT_THRESHOLD
             THEN equipment_filtered ELSE lst
    ELSE lst

\* a mutation of SparseFallback: the fallback keeps the sparse list
SparseFallbackKeep(all, lst) == lst

\* the list after the sparse-result fallback
SparseFallback(all, lst) ==
    IF Len(lst) < SPARSE_THRESHOLD THEN Take(all, FALLBACK_LIMIT) ELSE lst

\* a mutation of Truncate: the limit is forgotten
TruncateNone(lst) == lst

\* [:30]
Truncate(lst) == Take(lst, CONTEXT_LIMIT)

filter_exercises(all, p) ==
    Truncate(SparseFallback(all, EquipmentStep(BodyPartStep(all, p), p)))

----------------------------------------------------------------------------
(* Exercise records and JSON values of the catalog response *)

\* the value of an optional URL field of a record: missing, a string or a number
UrlAbsent == [t |-> "absent", v |-> <<>>]
UrlStr(s) == [t |-> "str", v |-> s]
UrlNum == [t |-> "num", v |-> <<>>]

\* a JSON list of records, and a JSON number
JList(lst) == [t |-> "list", v |-> lst]
JNum == [t |-> "num", v |-> <<>>]

Exercise(id, bps, eqs, img, vid) ==
    [exerciseId |-> id, bodyParts |-> bps, equipments |-> eqs,
     imageUrl |-> img, videoUrl |-> vid]

----------------------------------------------------------------------------
(* fetch_exercises *)

\* if ex.get(key): a non-empty string or a (non-zero) number
Truthy(u) == (u.t = "str" /\ u.v # <<>>) \/ u.t = "num"

\* the CDN prefix is put before a relative URL; a non-string URL raises
EnrichUrl(u, cdn) ==
    IF ~Truthy(u) THEN [ok |-> TRUE, url |-> u]
    ELSE IF u.t # "str" THEN [ok |-> FALSE, url |-> u]
    ELSE IF ~startswith(u.v, s_http)
         THEN [ok |-> TRUE, url |-> UrlStr(cdn \o <<"/">> \o u.v)]
         ELSE [ok |-> TRUE, url |-> u]

\* one pass of the loop body; the record is changed in place, field by field
EnrichRecord(ex) ==
    LET img == EnrichUrl(ex.imageUrl, EXERCISE_IMAGE_CDN)
        vid == EnrichUrl(ex.videoUrl, EXERCISE_VIDEO_CDN)
    IN  IF ~img.ok THEN [ok |-> FALSE, ex |-> ex]
        ELSE IF ~vid.ok THEN [ok |-> FALSE, ex |-> [ex EXCEPT !.imageUrl = img.url]]
        ELSE [ok |-> TRUE, ex |-> [ex EXCEPT !.imageUrl = img.url, !.videoUrl = vid.url]]

\* the enrichment loop from record i on; it stops at the first record that raises
RECURSIVE EnrichFrom(_, _)
EnrichFrom(lst, i) ==
    IF i > Len(lst) THEN [ok |-> TRUE, lst |-> lst]
    ELSE LET r == EnrichRecord(lst[i])
         IN  IF r.ok THEN EnrichFrom([lst EXCEPT ![i] = r.ex], i + 1)
             ELSE [ok |-> FALSE, lst |-> [lst EXCEPT ![i] = r.ex]]

\* the body of the try block after the awaited request: raise_for_status, json, the
\* assignment to exercises_cache, the enrichment loop.  ok: the call returns;
\* assigned: exercises_cache was assigned; cache: the value it then holds
StoreResponse(resp) ==
    IF resp.kind # "json" THEN [ok |-> FALSE, assigned |-> FALSE, cache |-> None]
    ELSE
        LET value == CASE resp.shape = "dict_data" -> resp.data
                       [] resp.shape = "list" -> resp.data
                       [] OTHER -> Some(JList(<<>>))
        IN  IF value = None \/ value[1].t # "list"
            THEN [ok |-> FALSE, assigned |-> TRUE, cache |-> value]
            ELSE LET e == EnrichFrom(value[1].v, 1)
                 IN  [ok |-> e.ok, assigned |-> TRUE, cache |-> Some(JList(e.lst))]

\* if exercises_cache is not None
CacheHit(cache) == cache # None

\* a mutation of MustFetch: the cache is never consulted
MustFetchAlways(cache) == TRUE

\* the call goes on to the external request
MustFetch(cache) == ~CacheHit(cache)

----------------------------------------------------------------------------
(* generate_workout: POST /api/workout *)

\* ', '.join(lst)
RECURSIVE JoinComma(_)
JoinComma(lst) ==
    IF lst = <<>> THEN <<>>
    ELSE IF Len(lst) = 1 THEN lst[1]
    ELSE lst[1] \o <<",", " ">> \o JoinComma(Tail(lst))

\* enhanced_query
EnhancedQuery(q, d, e) ==
    q \o (IF d # None /\ d[1] # <<>> THEN <<" ">> \o d[1] ELSE <<>>)
      \o (IF e # None /\ e[1] # <<>>
          THEN <<" ", "w", "i", "t", "h", " ">> \o JoinComma(e[1]) ELSE <<>>)

\* ex_id in exercise_map
InCatalog(ex_id, all) == \E i \in DOMAIN all : all[i].exerciseId = ex_id

\* exercise_map[ex_id]: the dict comprehension keeps the last record of each id
Lookup(ex_id, all) ==
    all[CHOOSE i \in DOMAIN all :
            /\ all[i].exerciseId = ex_id
            /\ \A j \in DOMAIN all : all[j].exerciseId = ex_id => j <= i]

\* if ex_id and ex_id in exercise_map
IdAccepted(ex_id, all) ==
    /\ ex_id # None
    /\ ex_id[1] # ""
    /\ InCatalog(ex_id, all)

\* the merged entry appended to full_exercises
FullExercise(plan_ex, all) ==
    LET full_ex == Lookup(plan_ex.id, all)
    IN  [id |-> full_ex.exerciseId,
         record |-> full_ex,
         sets |-> IF plan_ex.sets = None THEN 3 ELSE plan_ex.sets[1],
         level |-> "intermediate"]

\* a mutation of Reconcile: the loop ends at the first item it cannot accept
RECURSIVE ReconcileStopAtUnknown(_, _)
ReconcileStopAtUnknown(items, all) ==
    IF items = <<>> THEN <<>>
    ELSE IF IdAccepted(items[1].id, all)
         THEN <<FullExercise(items[1], all)>> \o ReconcileStopAtUnknown(Tail(items), all)
         ELSE <<>>

\* the loop over plan.get("exercises", [])
RECURSIVE Reconcile(_, _)
Reconcile(items, all) ==
    IF items = <<>> THEN <<>>
    ELSE (IF IdAccepted(items[1].id, all)
          THEN <<FullExercise(items[1], all)>> ELSE <<>>)
         \o Reconcile(Tail(items), all)

NoOutcome ==
    [status |-> 0, error |-> "", raised_status |-> 0, rewrapped |-> FALSE, all_exercises |-> <<>>,
     candidates |-> <<>>, llm_invoked |-> FALSE, plan |-> <<>>, exercises |-> <<>>]

\* an HTTPException raised inside the try block; the handler's last except clause
\* catches it and raises HTTPException(500, str(e)) in its place
Raised(status, error, base) ==
    [base EXCEPT !.status = 500, !.error = error, !.raised_status = status,
                 !.rewrapped = TRUE]

\* a failure of fetch_exercises inside the handler
FetchFailed == Raised(500, "fetch", NoOutcome)

\* lines 417-426: the enhanced query, the parsed parameters and the candidates,
\* given the value fetch_exercises returned and the request body
SelectCandidates(fetched, q, d, e) ==
    IF fetched.t # "list" THEN Raised(500, "internal", NoOutcome)
    ELSE
        LET all_exercises == fetched.v
            enhanced_query == EnhancedQuery(q, d, e)
            p == parse_user_query(enhanced_query, d, e)
            relevant_exercises == filter_exercises(all_exercises, p)
        IN  [NoOutcome EXCEPT !.all_exercises = all_exercises,
                              !.candidates = relevant_exercises]

\* lines 428-472: the empty-candidates check, the language model call and the
\* reconciliation, given what the language model does
PlanWorkout(base, key, llm) ==
    IF base.status # 0 THEN base
    ELSE IF base.candidates = <<>> THEN Raised(400, "no_candidates", base)
    ELSE IF ~key THEN Raised(500, "anthropic_key", base)
    ELSE IF llm.kind = "api_error"
         THEN [base EXCEPT !.status = 500, !.error = "ai_api",
                           !.raised_status = 500, !.llm_invoked = TRUE]
    ELSE IF llm.kind = "invalid_json"
         THEN Raised(500, "parse", [base EXCEPT !.llm_invoked = TRUE])
    ELSE [base EXCEPT !.status = 200, !.llm_invoked = TRUE,
                      !.plan = llm.exercises,
                      !.exercises = Reconcile(llm.exercises, base.all_exercises)]

----------------------------------------------------------------------------
(* Bounds and inputs *)

MaxWords == 2        \* words in a query given to parse_user_query
MaxHead == 3         \* freely chosen records at the head of a catalog
MaxCalls == 3        \* concurrent fetch_exercises calls
MaxWorkouts == 2     \* successive POST /api/workout requests
MaxPlanLen == 3      \* exercise items in a plan

w_Easy == <<"E","a","s","y">>
w_renewal == <<"r","e","n","e","w","a","l">>
w_Pro == <<"P","r","o">>
w_DUMBBELL == <<"D","U","M","B","B","E","L","L">>
w_CHEST == <<"C","H","E","S","T">>
w_a_png == <<"a",".","p","n","g">>
w_http_v == <<"h","t","t","p",":","/","/","v">>

QueryWords ==
    {w_Easy, s_hard, s_moderate, w_renewal, s_chest, s_Back, s_dumbbells, s_arms}

\* the queries of at most n words, separated by blanks
RECURSIVE QueriesOf(_)
QueriesOf(n) ==
    IF n = 0 THEN {<<>>}
    ELSE QueryWords \cup QueriesOf(n - 1)
         \cup {q \o <<" ">> \o w : q \in QueriesOf(n - 1) \ {<<>>}, w \in QueryWords}

Queries == QueriesOf(MaxWords)
Difficulties == {None, Some(<<>>), Some(s_expert), Some(w_Pro)}
EquipmentLists == {None, Some(<<>>), Some(<<s_barbell, w_DUMBBELL>>)}

\* the kinds of record a catalog is made of: body parts and equipments
RecordKinds ==
    {<< <<s_Chest>>, <<s_dumbbell>> >>,
     << <<w_CHEST, s_Waist>>, <<s_barbell>> >>,
     << <<s_Back>>, <<w_DUMBBELL, s_cable>> >>}

\* the sequences over S of length at most n
RECURSIVE SeqsUpTo(_, _)
SeqsUpTo(S, n) ==
    IF n = 0 THEN {<<>>}
    ELSE SeqsUpTo(S, n - 1)
         \cup {Append(s, x) : s \in {t \in SeqsUpTo(S, n - 1) : Len(t) = n - 1}, x \in S}

\* a catalog: the records of the given kinds, with the ids "1", "2", ...
CatalogOf(kinds) ==
    [i \in 1..Len(kinds) |->
        Exercise(Some(ToString(i)), kinds[i][1], kinds[i][2], UrlAbsent, UrlAbsent)]

\* n records of one kind
Fill(kind, n) == [i \in 1..n |-> kind]

\* catalogs: a free head, then none, or just under or just over the limit, of one kind
Catalogs ==
    {CatalogOf(head \o Fill(kind, n)) :
        head \in SeqsUpTo(RecordKinds, MaxHead),
        kind \in {<< <<s_Chest>>, <<s_dumbbell>> >>, << <<s_Back>>, <<w_DUMBBELL, s_cable>> >>},
        n \in {0, CONTEXT_LIMIT - 1, CONTEXT_LIMIT + 1}}

ParamSets ==
    {[muscles |-> {}, body_parts |-> bp, difficulty |-> None, equipment |-> eq] :
        bp \in {{}, {s_Chest}, {s_Waist, s_Back}},
        eq \in {{}, {s_dumbbell}, {s_barbell, s_cable}}}

\* what the external catalog API may answer
NetworkError == [kind |-> "network_error", shape |-> "", data |-> None]
HttpError == [kind |-> "http_error", shape |-> "", data |-> None]
JsonList(lst) == [kind |-> "json", shape |-> "list", data |-> Some(JList(lst))]
JsonData(value) == [kind |-> "json", shape |-> "dict_data", data |-> value]
JsonOther == [kind |-> "json", shape |-> "other", data |-> None]

ex_a == Exercise(Some("a"), <<s_Chest>>, <<s_dumbbell>>, UrlStr(w_a_png), UrlStr(w_http_v))
ex_b == Exercise(Some("b"), <<s_Chest>>, <<s_barbell>>, UrlAbsent, UrlStr(w_a_png))
ex_c == Exercise(Some("c"), <<w_CHEST>>, <<w_DUMBBELL>>, UrlStr(<<>>), UrlAbsent)
ex_d == Exercise(Some("d"), <<s_Back>>, <<s_cable>>, UrlAbsent, UrlAbsent)
ex_bad == Exercise(Some("e"), <<s_Back>>, <<s_cable>>, UrlStr(w_a_png), UrlNum)
ex_empty_id == Exercise(Some(""), <<s_Chest>>, <<>>, UrlAbsent, UrlAbsent)
ex_no_id == Exercise(None, <<s_Back>>, <<>>, UrlAbsent, UrlAbsent)
ex_a_again == Exercise(Some("a"), <<s_Back>>, <<s_cable>>, UrlAbsent, UrlAbsent)

FetchResponses ==
    {NetworkError, HttpError, JsonOther,
     JsonList(<<ex_a>>),
     JsonData(Some(JList(<<ex_b, ex_bad, ex_c>>))),
     JsonData(None),
     JsonData(Some(JNum))}

WorkoutResponses ==
    {NetworkError, JsonOther,
     JsonList(<<>>),
     JsonData(Some(JList(<<ex_a, ex_b, ex_c, ex_d>>))),
     JsonList(<<ex_empty_id, ex_no_id, ex_a, ex_a_again>>),
     JsonData(Some(JList(<<ex_b, ex_bad>>)))}

WorkoutQueries == {s_chest, s_Back, w_Easy}
WorkoutDifficulties == {None, Some(w_Pro)}
WorkoutEquipment == {None, Some(<<w_DUMBBELL>>)}

PlanItems ==
    {[id |-> i, sets |-> None] : i \in {None, Some(""), Some("a"), Some("d"), Some("zz")}}
    \cup {[id |-> Some("a"), sets |-> Some(5)]}

\* what the language model call may do
LlmResults ==
    {[kind |-> "api_error", exercises |-> <<>>], [kind |-> "invalid_json", exercises |-> <<>>]}
    \cup {[kind |-> "plan", exercises |-> items] : items \in SeqsUpTo(PlanItems, MaxPlanLen)}

Calls == 1..MaxCalls
WorkoutCalls == 1..MaxWorkouts

----------------------------------------------------------------------------
(* State machines *)

NoParse == [muscles |-> {}, body_parts |-> {}, difficulty |-> None, equipment |-> {}]

pure_vars == <<query, difficulty, equipment, parsed, exercises, params, filtered, step>>
fetch_vars == <<exercises_cache, pc, ret, requests, seen_unset, before, stored, assigns>>

PureIdle ==
    /\ query = <<>> /\ difficulty = None /\ equipment = None /\ parsed = NoParse
    /\ exercises = <<>> /\ params = NoParse /\ filtered = <<>>
    /\ step = "input"

\* the module after import: exercises_cache = None, no call has started
ServerInit ==
    /\ exercises_cache = None
    /\ pc = [c \in Calls |-> "idle"]
    /\ ret = [c \in Calls |-> None]
    /\ requests = 0
    /\ seen_unset = [c \in Calls |-> FALSE]
    /\ before = [c \in Calls |-> {}]
    /\ stored = [c \in Calls |-> None]
    /\ assigns = 0
    /\ outcome = NoOutcome

ServerIdle == ServerInit /\ api_key = TRUE /\ anthropic_key = TRUE

(* parse_user_query on its own *)
InitParse ==
    /\ query \in Queries /\ difficulty \in Difficulties /\ equipment \in EquipmentLists
    /\ parsed = NoParse /\ step = "input"
    /\ exercises = <<>> /\ params = NoParse /\ filtered = <<>>
    /\ ServerIdle

ParseUserQuery ==
    /\ step = "input"
    /\ parsed' = parse_user_query(query, difficulty, equipment)
    /\ step' = "done"
    /\ UNCHANGED <<query, difficulty, equipment, exercises, params, filtered,
                   api_key, anthropic_key, fetch_vars, outcome>>

SpecParse == InitParse /\ [][ParseUserQuery]_vars

(* filter_exercises on its own *)
InitFilter ==
    /\ exercises \in Catalogs /\ params \in ParamSets
    /\ filtered = <<>> /\ step = "input"
    /\ query = <<>> /\ difficulty = None /\ equipment = None /\ parsed = NoParse
    /\ ServerIdle

FilterExercises ==
    /\ step = "input"
    /\ filtered' = filter_exercises(exercises, params)
    /\ step' = "done"
    /\ UNCHANGED <<query, difficulty, equipment, parsed, exercises, params,
                   api_key, anthropic_key, fetch_vars, outcome>>

SpecFilter == InitFilter /\ [][FilterExercises]_vars

(* fetch_exercises: the steps between suspension points *)

\* the calls that have stored a value in the cache
Populators == {a \in Calls : stored[a] # None}

Entered(c) ==
    /\ pc[c] = "idle"
    /\ seen_unset' = [seen_unset EXCEPT ![c] = (exercises_cache = None)]
    /\ before' = [before EXCEPT ![c] = Populators]

\* lines 171-172: the cache is set, the call returns it
StartCached(c) ==
    /\ Entered(c)
    /\ ~MustFetch(exercises_cache)
    /\ pc' = [pc EXCEPT ![c] = "returned"]
    /\ ret' = [ret EXCEPT ![c] = exercises_cache]
    /\ UNCHANGED <<api_key, exercises_cache, requests, stored, assigns>>

\* get_rapidapi_headers raises: no request is made, the call fails
StartNoKey(c) ==
    /\ Entered(c)
    /\ MustFetch(exercises_cache)
    /\ ~api_key
    /\ pc' = [pc EXCEPT ![c] = "failed"]
    /\ UNCHANGED <<api_key, exercises_cache, ret, requests, stored, assigns>>

\* lines 175-182: the request is sent and the call is suspended
StartRequest(c) ==
    /\ Entered(c)
    /\ MustFetch(exercises_cache)
    /\ api_key
    /\ pc' = [pc EXCEPT ![c] = "awaiting"]
    /\ requests' = requests + 1
    /\ UNCHANGED <<api_key, exercises_cache, ret, stored, assigns>>

\* lines 183-214: the response arrives and the call runs to its end
Resume(c, resp) ==
    LET s == StoreResponse(resp)
        cache == IF s.assigned THEN s.cache ELSE exercises_cache
    IN  /\ pc[c] = "awaiting"
        /\ exercises_cache' = cache
        /\ stored' = [stored EXCEPT ![c] = IF s.assigned THEN s.cache ELSE None]
        /\ assigns' = assigns + (IF s.assigned /\ s.cache # None THEN 1 ELSE 0)
        /\ pc' = [pc EXCEPT ![c] = IF s.ok THEN "returned" ELSE "failed"]
        /\ ret' = [ret EXCEPT ![c] = IF s.ok THEN cache ELSE None]
        /\ UNCHANGED <<api_key, requests, seen_unset, before>>

InitFetch ==
    /\ api_key \in BOOLEAN /\ anthropic_key = TRUE
    /\ ServerInit /\ PureIdle

FetchCached(c) == StartCached(c) /\ UNCHANGED <<pure_vars, anthropic_key, outcome>>
FetchNoKey(c) == StartNoKey(c) /\ UNCHANGED <<pure_vars, anthropic_key, outcome>>
FetchRequest(c) == StartRequest(c) /\ UNCHANGED <<pure_vars, anthropic_key, outcome>>
FetchResume(c) ==
    \E resp \in FetchResponses :
        Resume(c, resp) /\ UNCHANGED <<pure_vars, anthropic_key, outcome>>

NextFetch ==
    \E c \in Calls : FetchCached(c) \/ FetchNoKey(c) \/ FetchRequest(c) \/ FetchResume(c)

SpecFetch == InitFetch /\ [][NextFetch]_vars

(* POST /api/workout, one request after the other *)

InitWorkout ==
    /\ api_key \in BOOLEAN /\ anthropic_key \in BOOLEAN
    /\ ServerInit /\ PureIdle

\* the previous requests have been answered and their responses sent
Turn(c) ==
    /\ \A k \in WorkoutCalls : k < c => pc[k] \in {"returned", "failed"}
    /\ outcome = NoOutcome

\* the handler once fetch_exercises has returned
Respond(fetched) ==
    \E base \in {SelectCandidates(fetched, q, d, e) :
                     q \in WorkoutQueries, d \in WorkoutDifficulties, e \in WorkoutEquipment} :
        \E llm \in LlmResults : outcome' = PlanWorkout(base, anthropic_key, llm)

WorkoutCached(c) ==
    /\ Turn(c)
    /\ StartCached(c)
    /\ Respond(exercises_cache[1])
    /\ UNCHANGED <<pure_vars, anthropic_key>>

WorkoutNoKey(c) ==
    /\ Turn(c)
    /\ StartNoKey(c)
    /\ outcome' = FetchFailed
    /\ UNCHANGED <<pure_vars, anthropic_key>>

WorkoutRequest(c) ==
    /\ Turn(c)
    /\ StartRequest(c)
    /\ UNCHANGED <<pure_vars, anthropic_key, outcome>>

WorkoutResume(c) ==
    \E resp \in WorkoutResponses :
        /\ Resume(c, resp)
        /\ IF StoreResponse(resp).ok
           THEN Respond(StoreResponse(resp).cache[1])
           ELSE outcome' = FetchFailed
        /\ UNCHANGED <<pure_vars, anthropic_key>>

\* the response leaves the handler; what the request held is dropped
ResponseSent ==
    /\ outcome # NoOutcome
    /\ outcome' = NoOutcome
    /\ UNCHANGED <<pure_vars, api_key, anthropic_key, fetch_vars>>

NextWorkout ==
    \/ \E c \in WorkoutCalls :
            WorkoutCached(c) \/ WorkoutNoKey(c) \/ WorkoutRequest(c) \/ WorkoutResume(c)
    \/ ResponseSent

SpecWorkout == InitWorkout /\ [][NextWorkout]_vars


----------------------------------------------------------------------------
(* Properties of filter_exercises, checked under SpecFilter *)

\* the candidate list left after the body-part step and the equipment step
AfterSteps == EquipmentStep(BodyPartStep(exercises, params), params)

\* the body-part-filtered records that match a requested equipment
EquipmentMatches ==
    LET Keep(ex) == MatchesEquipment(ex, params.equipment)
    IN  SelectSeq(BodyPartStep(exercises, params), Keep)

\* the first n records of the catalog
CatalogPrefix(n) == [i \in 1..(IF Len(exercises) < n THEN Len(exercises) ELSE n) |-> exercises[i]]

\* sub[i..] can be read off s[j..] from left to right
RECURSIVE IsSubsequenceFrom(_, _, _, _)
IsSubsequenceFrom(sub, i, s, j) ==
    IF i > Len(sub) THEN TRUE
    ELSE IF j > Len(s) THEN FALSE
    ELSE IF sub[i] = s[j] THEN IsSubsequenceFrom(sub, i + 1, s, j + 1)
    ELSE IsSubsequenceFrom(sub, i, s, j + 1)

\* C1: when fewer than 3 records are left after the body-part and equipment steps,
\* filter_exercises returns exactly the first 30 records of the catalog, in order.
C1_SparseFallbackIsCatalogPrefix ==
    (step = "done" /\ Len(AfterSteps) < 3) => filtered = CatalogPrefix(30)

\* C1 witness: a sparse result on a catalog of more than 30 records, cut to 30.
C1_Witness ==
    /\ step = "done"
    /\ Len(AfterSteps) < 3
    /\ Len(exercises) > 30
    /\ params.body_parts # {}
    /\ Len(filtered) = 30

\* C2: with a non-empty equipment set that fewer than 3 body-part-filtered records
\* match, filter_exercises returns what it returns for an empty equipment set.
C2_EquipmentBelowThresholdRemovesNothing ==
    (step = "done" /\ params.equipment # {} /\ Len(EquipmentMatches) < 3)
        => filtered = filter_exercises(exercises, [params EXCEPT !.equipment = {}])

\* C2 witness: one or two records match the equipment, three or more the body
\* parts, and the result is the body-part list, not the whole catalog.
C2_Witness ==
    /\ step = "done"
    /\ params.equipment # {}
    /\ Len(EquipmentMatches) \in {1, 2}
    /\ Len(BodyPartStep(exercises, params)) >= 3
    /\ Len(filtered) < Len(exercises)
    /\ Len(filtered) < 30

\* C3: the output has at most 30 records and is a subsequence of the catalog.
C3_BoundedSubsequence ==
    step = "done" =>
        /\ Len(filtered) <= 30
        /\ IsSubsequenceFrom(filtered, 1, exercises, 1)

\* C3 witness: more than 30 records pass the filter and the 30 kept are not the
\* first 30 of the catalog.
C3_Witness ==
    /\ step = "done"
    /\ Len(AfterSteps) > 30
    /\ Len(filtered) = 30
    /\ filtered # CatalogPrefix(30)

----------------------------------------------------------------------------
(* Properties of parse_user_query, checked under SpecParse *)

\* an explicit difficulty was supplied and is not empty
ExplicitDifficulty == difficulty # None /\ difficulty[1] # <<>>

\* the keyword groups in their fixed order, with their labels
DifficultyGroups ==
    << <<BEGINNER_WORDS, s_beginner>>,
       <<INTERMEDIATE_WORDS, s_intermediate>>,
       <<EXPERT_WORDS, s_expert>> >>

GroupMatches(g) == \E w \in DifficultyGroups[g][1] : Contains(w, lower(query))

\* C9: an explicit non-empty difficulty is returned verbatim; otherwise the label is
\* that of the first keyword group, in the order beginner, intermediate, expert,
\* that has a keyword in the lowered query, and no label is set when none has.
C9_DifficultyResolution ==
    step = "done" =>
        /\ ExplicitDifficulty => parsed.difficulty = difficulty
        /\ ~ExplicitDifficulty =>
            /\ \A g \in 1..3 :
                (GroupMatches(g) /\ \A h \in 1..(g - 1) : ~GroupMatches(h))
                    => parsed.difficulty = Some(DifficultyGroups[g][2])
            /\ (\A g \in 1..3 : ~GroupMatches(g)) => parsed.difficulty \in {None, Some(<<>>)}

\* C9 witness: no explicit difficulty, a query with keywords of the beginner and of
\* the expert group, resolved to beginner.
C9_Witness ==
    /\ step = "done"
    /\ ~ExplicitDifficulty
    /\ GroupMatches(1) /\ GroupMatches(3)
    /\ parsed.difficulty = Some(s_beginner)

----------------------------------------------------------------------------
(* Properties of fetch_exercises, checked under SpecFetch *)

\* C6 as stated: once a call has populated the cache, every call that starts
\* afterwards returns the sequence that call stored, without a request.
C6_LaterCallsReturnFirstStored ==
    \A c \in Calls : pc[c] # "idle" =>
        \A a \in before[c] : pc[c] = "returned" /\ ret[c] = stored[a]

\* C6 amended: a call that starts while the cache is populated returns the
\* sequence the cache holds at that moment, issues no request and leaves the
\* cache as it is.
C6_CachedCallReturnsCurrentCache ==
    [][\A c \in Calls :
          (pc[c] = "idle" /\ pc'[c] # "idle" /\ exercises_cache # None)
              => /\ pc'[c] = "returned"
                 /\ ret'[c] = exercises_cache
                 /\ requests' = requests
                 /\ exercises_cache' = exercises_cache]_vars

\* C6 witness: a call that started after the cache was populated with the empty
\* sequence of an unrecognized response shape, and returned it.
C6_Witness ==
    \E c \in Calls :
        /\ pc[c] = "returned"
        /\ ~seen_unset[c]
        /\ before[c] # {}
        /\ ret[c] = Some(JList(<<>>))

\* C7 as stated: the cache is populated at most once.
C7_PopulatedAtMostOnce == assigns <= 1

\* C7 amended: only a call that found the cache unset when it started ever
\* populates it, and each such call at most once; calls suspended together at the
\* request may each populate it.
C7_OnlyCallsThatSawUnsetPopulate ==
    /\ \A c \in Calls : stored[c] # None => (seen_unset[c] /\ pc[c] \in {"returned", "failed"})
    /\ assigns <= Cardinality({c \in Calls : pc[c] # "idle" /\ seen_unset[c]})
    /\ assigns = Cardinality(Populators)

\* C7 witness: two calls that overlapped at the request have both populated the cache.
C7_Witness ==
    \E a, b \in Calls :
        /\ a # b
        /\ stored[a] # None /\ stored[b] # None
        /\ seen_unset[a] /\ seen_unset[b]
        /\ assigns = 2

\* C10: a call that ends in an error has left nothing in the cache.
C10_FailedCallLeavesCacheUnset ==
    \A c \in Calls : pc[c] = "failed" => stored[c] = None

----------------------------------------------------------------------------
(* Properties of POST /api/workout, checked under SpecWorkout *)

\* the ids of a list of plan items or of reconciled entries
IdsOf(lst) == [i \in DOMAIN lst |-> lst[i].id]

\* the plan item names an id that a catalog record carries
IdInCatalog(item) ==
    /\ item.id # None
    /\ \E i \in DOMAIN outcome.all_exercises : outcome.all_exercises[i].exerciseId = item.id

\* the plan item names a non-empty id that a catalog record carries
NonEmptyIdInCatalog(item) == IdInCatalog(item) /\ item.id[1] # ""

\* C4 as stated: the reconciled list is the plan's items whose id is in the
\* catalog, once per item and in the plan's order.
C4_ReconciledIsPlanItemsInCatalog ==
    outcome.status = 200 =>
        IdsOf(outcome.exercises) = IdsOf(SelectSeq(outcome.plan, IdInCatalog))

\* C4 amended: the reconciled list is the plan's items whose id is non-empty and
\* in the catalog, once per item and in the plan's order; every entry carries a
\* catalog record of that id, and the list is no longer than the plan.
C4_ReconciledIsPlanItemsWithNonEmptyIdInCatalog ==
    outcome.status = 200 =>
        /\ IdsOf(outcome.exercises) = IdsOf(SelectSeq(outcome.plan, NonEmptyIdInCatalog))
        /\ \A i \in DOMAIN outcome.exercises :
              /\ outcome.exercises[i].record.exerciseId = outcome.exercises[i].id
              /\ \E j \in DOMAIN outcome.all_exercises :
                    outcome.all_exercises[j] = outcome.exercises[i].record
        /\ Len(outcome.exercises) <= Len(outcome.plan)

\* C4 witness: a plan of 3 ids, the middle one unknown, reconciled to the 2 valid
\* entries in the plan's order.
C4_Witness ==
    /\ outcome.status = 200
    /\ IdsOf(outcome.plan) = <<Some("d"), Some("zz"), Some("a")>>
    /\ IdsOf(outcome.exercises) = <<Some("d"), Some("a")>>

\* C5: every id in the reconciled output is the id of a candidate offered to the
\* language model.
C5_OutputIdsAreCandidateIds ==
    outcome.status = 200 =>
        \A i \in DOMAIN outcome.exercises :
            \E j \in DOMAIN outcome.candidates :
                outcome.candidates[j].exerciseId = outcome.exercises[i].id

\* the handler got an empty catalog from fetch_exercises
EmptyCatalogServed ==
    /\ outcome.status # 0
    /\ outcome.error \notin {"fetch", "internal"}
    /\ outcome.all_exercises = <<>>

\* C8: on an empty catalog the request ends in the no-candidates error with
\* status 400 and the language model is not invoked.
C8_EmptyCatalogIs400 ==
    EmptyCatalogServed =>
        /\ outcome.error = "no_candidates"
        /\ ~outcome.llm_invoked
        /\ outcome.status = 400
====
